---- MODULE Spec2Model ----
(***************************************************************************)
(* Determinization of a finite paraconsistent non-deterministic automaton  *)
(* (FPNA), as implemented by src/main.py.                                  *)
(*                                                                         *)
(* Truth values are pairs (tt, ff) of [0,1]^2.  Only min, max and equality *)
(* are ever applied to them, so a component is represented by its number   *)
(* of tenths: 0.5 is 5, 1 is 10.                                           *)
(* A Python string is a sequence of characters: a word is a sequence of    *)
(* symbols, a deterministic state is a sequence of digit characters.        *)
(***************************************************************************)
EXTENDS Integers, Sequences, FiniteSets, TLC

VARIABLES Sigma, Q, initial, F, delta,
          pc, transitions, next_words, words, words_states, i,
          QD, deltaD

vars == <<Sigma, Q, initial, F, delta,
          pc, transitions, next_words, words, words_states, i, QD, deltaD>>

input == <<Sigma, Q, initial, F>>

----------------------------------------------------------------------------
(* Bounds of the model *)

\* largest number of entries of the raw (not yet completed) transition table
MaxTrans == 3
\* same, for the inputs of the fair specification
MaxTransLive == 2
\* cap on the length of the words that ForEnd extends (never reached by step1)
MaxWordLen == 6
\* length of the words over which reach is compared with the result of step1
MaxProbe == 3

----------------------------------------------------------------------------
(* Truth values *)

Bot == <<0, 10>>
Top == <<10, 0>>
\* a value with truth only, and a value with absence of falsity only
OnlyT == <<10, 10>>
OnlyF == <<0, 0>>

Min2(x, y) == IF x <= y THEN x ELSE y
Max2(x, y) == IF x >= y THEN x ELSE y

\* the truth values of the model, in tenths
Vals == (0..10) \X (0..10)

TwistAnd ==
    [pair1 \in Vals, pair2 \in Vals |->
        <<Min2(pair1[1], pair2[1]), Max2(pair1[2], pair2[2])>>]

\* TwistOr taking the larger falsity degree
TwistOr_slip ==
    [pair1 \in Vals, pair2 \in Vals |->
        <<Max2(pair1[1], pair2[1]), Max2(pair1[2], pair2[2])>>]

TwistOr ==
    [pair1 \in Vals, pair2 \in Vals |->
        <<Max2(pair1[1], pair2[1]), Min2(pair1[2], pair2[2])>>]

----------------------------------------------------------------------------
(* The automaton of Example 5 *)

Example5Sigma == <<"a", "b">>
Example5Q == {0, 1, 2, 3}
Example5F == {0, 3}
Example5Delta ==
    (<<0, "b", 0>> :> <<10, 0>>) @@
    (<<0, "a", 1>> :> <<5, 6>>) @@
    (<<0, "a", 2>> :> <<4, 8>>) @@
    (<<2, "b", 0>> :> <<10, 0>>) @@
    (<<1, "b", 3>> :> <<8, 10>>)

----------------------------------------------------------------------------
(* Helpers on sets and sequences *)

Range(f) == {f[x] : x \in DOMAIN f}

MinOf(S) == CHOOSE x \in S : \A y \in S : x <= y
MaxOf(S) == CHOOSE x \in S : \A y \in S : x >= y

\* sorted(set_states)
sorted[S \in SUBSET Nat] ==
    IF S = {} THEN <<>> ELSE <<MinOf(S)>> \o sorted[S \ {MinOf(S)}]

\* the characters of the decimal digits 0..9
DigitChars == <<"0", "1", "2", "3", "4", "5", "6", "7", "8", "9">>

\* str(n): the decimal digits of a non-negative integer, as characters
RECURSIVE str(_)
str(n) == IF n < 10 THEN <<DigitChars[n + 1]>>
          ELSE str(n \div 10) \o <<DigitChars[(n % 10) + 1]>>

\* ''.join(seq of strings)
RECURSIVE join(_)
join(ss) == IF ss = <<>> THEN <<>> ELSE Head(ss) \o join(Tail(ss))

\* list.remove(w): drops the first occurrence of w
RECURSIVE remove(_, _)
remove(ws, w) == IF ws = <<>> THEN <<>>
                 ELSE IF Head(ws) = w THEN Tail(ws)
                 ELSE <<Head(ws)>> \o remove(Tail(ws), w)

SeqSet(s) == {s[k] : k \in 1..Len(s)}

----------------------------------------------------------------------------
(* complete() *)

complete ==
    [k \in DOMAIN delta \cup {<<q1, a, q2>> : q1 \in Q, a \in SeqSet(Sigma), q2 \in Q}
        |-> IF k \in DOMAIN delta THEN delta[k] ELSE Bot]

----------------------------------------------------------------------------
(* deltastar and reach *)

RECURSIVE deltastar(_, _, _), deltastarLoop(_, _, _, _, _)
\* the loop "for r in Q", at the k-th state r of Q
deltastarLoop(q1, w, q2, k, result) ==
    IF k > Cardinality(Q) THEN result
    ELSE deltastarLoop(q1, w, q2, k + 1,
             TwistOr[result,
                     TwistAnd[delta[<<q1, w[1], sorted[Q][k]>>],
                              deltastar(sorted[Q][k], Tail(w), q2)]])

deltastar(q1, w, q2) ==
    IF w = <<>> THEN (IF q1 = q2 THEN Top ELSE Bot)
    ELSE deltastarLoop(q1, w, q2, 1, Bot)

\* deltastar(q1, w, _) looks up a key that delta does not hold (KeyError)
RECURSIVE deltastarRaises(_, _)
deltastarRaises(q1, w) ==
    /\ w # <<>>
    /\ \E r \in Q : \/ <<q1, w[1], r>> \notin DOMAIN delta
                    \/ deltastarRaises(r, Tail(w))

reach(p, w) == {q \in Q : deltastar(p, w, q) # Bot}

reachRaises(p, w) == Q # {} /\ deltastarRaises(p, w)

----------------------------------------------------------------------------
(* Auxiliary functions *)

\* [w + a for w in W for a in Sigma], Sig being the list Sigma
add_letter(W, Sig) ==
    [k \in 1..(Len(W) * Len(Sig)) |->
        Append(W[((k - 1) \div Len(Sig)) + 1], Sig[((k - 1) % Len(Sig)) + 1])]

to_state[set_states \in SUBSET Nat] ==
    join([k \in 1..Cardinality(set_states) |-> str(sorted[set_states][k])])

\* int(s) for a character s of a state string
int(s) == CHOOSE n \in 0..9 : DigitChars[n + 1] = s

is_final(set_states) ==
    {state \in set_states : \E k \in 1..Len(state) : int(state[k]) \in F}

----------------------------------------------------------------------------
(* step1: the body of "for w in next_words" *)

\* the removal test of the loop body, without the test for a known state
known_or_deadlock_slip(new_state, ws) == new_state = <<>>

\* (new_state in words_states.values()) or (new_state == '')
known_or_deadlock(new_state, ws) ==
    (new_state \in Range(ws)) \/ (new_state = <<>>)

\* st = [transitions, words, words_states]; the result is st after the body.
\* reach(initial, w) is computed once, as in the code, and bound to new_state.
ProcessWord(st, w) ==
    LET prefix == SubSeq(w, 1, Len(w) - 1)
        prev_state == IF prefix \in DOMAIN st.words_states
                      THEN st.words_states[prefix]
                      ELSE to_state[{initial}]
        after(new_state) ==
            [transitions |->
                IF (<<prev_state, w[Len(w)], new_state>> \notin st.transitions)
                      /\ (new_state # <<>>)
                THEN st.transitions \cup {<<prev_state, w[Len(w)], new_state>>}
                ELSE st.transitions,
             words |-> IF known_or_deadlock(new_state, st.words_states)
                       THEN remove(st.words, w)
                       ELSE st.words,
             words_states |-> [x \in DOMAIN st.words_states \cup {w} |->
                                  IF x = w THEN new_state ELSE st.words_states[x]]]
    IN CHOOSE r \in {after(new_state) : new_state \in {to_state[reach(initial, w)]}} : TRUE

NoWords == [x \in {} |-> <<>>]

\* Sigma.copy(), as the list of the one-letter words
Letters(Sig) == [k \in 1..Len(Sig) |-> <<Sig[k]>>]

\* step1 as a function of the list Sigma (for a well-formed input)
RECURSIVE ForLoop(_, _, _), WhileLoop(_, _, _, _)
ForLoop(st, nw, k) ==
    IF k > Len(nw) THEN st ELSE ForLoop(ProcessWord(st, nw[k]), nw, k + 1)

WhileLoop(trans, nw, ws, Sig) ==
    IF nw = <<>> THEN trans
    ELSE LET st == ForLoop([transitions |-> trans, words |-> nw,
                            words_states |-> ws], nw, 1)
         IN WhileLoop(st.transitions, add_letter(st.words, Sig),
                      st.words_states, Sig)

step1(Sig) == WhileLoop({}, Letters(Sig), NoWords, Sig)

----------------------------------------------------------------------------
(* step2 *)

\* the loops "for p in S1: for q in S2", as a fold over the pairs in order
RECURSIVE weightLoop(_, _, _, _, _, _)
weightLoop(S1, a, S2, p, q, value) ==
    IF p > Len(S1) THEN value
    ELSE IF q > Len(S2) THEN weightLoop(S1, a, S2, p + 1, 1, value)
    ELSE weightLoop(S1, a, S2, p, q + 1,
                    TwistOr[value, delta[<<int(S1[p]), a, int(S2[q])>>]])

weight(t) == weightLoop(t[1], t[2], t[3], 1, 1, Bot)

weightRaises(t) ==
    \E p \in 1..Len(t[1]), q \in 1..Len(t[3]) :
        <<int(t[1][p]), t[2], int(t[3][q])>> \notin DOMAIN delta

step2QD(trans) == {t[1] : t \in trans} \cup {t[3] : t \in trans}

step2deltaD(trans) == [t \in trans |-> weight(t)]

----------------------------------------------------------------------------
(* Inputs *)

SigmaLists == {<<"a">>, <<"a", "b">>}
StateSets == {{0, 12}, {0, 1, 2}, {1, 2, 12}}
Outsiders == {7}
RawValues == {OnlyT, OnlyF}

Keys(Qs, Sig) == {<<q1, a, q2>> : q1 \in Qs, a \in SeqSet(Sig), q2 \in Qs}

WellFormed == initial \in Q

Idle ==
    /\ pc = "complete"
    /\ transitions = {}
    /\ next_words = <<>>
    /\ words = <<>>
    /\ words_states = NoWords
    /\ i = 1
    /\ QD = {}
    /\ deltaD = NoWords

InitExample5 ==
    /\ Sigma = Example5Sigma
    /\ Q = Example5Q
    /\ initial = 0
    /\ F = Example5F
    /\ delta = Example5Delta
    /\ Idle

\* the automata with at most n raw transitions; an initial state outside Q
\* comes with at most one raw transition
InitBounded(n) ==
    /\ Sigma \in SigmaLists
    /\ Q \in StateSets
    /\ initial \in {MinOf(Q)} \cup Outsiders
    /\ F = {MaxOf(Q)}
    /\ \E K \in SUBSET Keys(Q, Sigma) :
          /\ Cardinality(K) <= (IF initial \in Q THEN n ELSE 1)
          /\ delta \in [K -> RawValues]
    /\ Idle

Init == InitExample5 \/ InitBounded(MaxTrans)

InitLive == InitExample5 \/ InitBounded(MaxTransLive)

----------------------------------------------------------------------------
(* The program, statement by statement *)

\* delta = complete(), at module level
Complete ==
    /\ pc = "complete"
    /\ delta' = complete
    /\ pc' = "step1"
    /\ UNCHANGED <<input, transitions, next_words, words, words_states, i, QD, deltaD>>

\* step1, up to the while loop
Step1Start ==
    /\ pc = "step1"
    /\ transitions' = {}
    /\ next_words' = Letters(Sigma)
    /\ words_states' = NoWords
    /\ pc' = "while"
    /\ UNCHANGED <<input, delta, words, i, QD, deltaD>>

\* while next_words != []: words = next_words.copy()
WhileEnter ==
    /\ pc = "while"
    /\ next_words # <<>>
    /\ words' = next_words
    /\ i' = 1
    /\ pc' = "for"
    /\ UNCHANGED <<input, delta, transitions, next_words, words_states, QD, deltaD>>

\* the while loop ends: return transitions
WhileExit ==
    /\ pc = "while"
    /\ next_words = <<>>
    /\ pc' = "step2"
    /\ UNCHANGED <<input, delta, transitions, next_words, words, words_states, i, QD, deltaD>>

\* one iteration of "for w in next_words"
ForBody ==
    /\ pc = "for"
    /\ i <= Len(next_words)
    /\ ~reachRaises(initial, next_words[i])
    /\ \E st \in {ProcessWord([transitions |-> transitions, words |-> words,
                                words_states |-> words_states], next_words[i])} :
          /\ transitions' = st.transitions
          /\ words' = st.words
          /\ words_states' = st.words_states
    /\ i' = i + 1
    /\ UNCHANGED <<input, delta, pc, next_words, QD, deltaD>>

\* reach(initial, w) looks up a key that delta does not hold
ForBodyKeyError ==
    /\ pc = "for"
    /\ i <= Len(next_words)
    /\ reachRaises(initial, next_words[i])
    /\ pc' = "KeyError"
    /\ UNCHANGED <<input, delta, transitions, next_words, words, words_states, i, QD, deltaD>>

\* the for loop ends: next_words = add_letter(words)
ForEnd ==
    /\ pc = "for"
    /\ i > Len(next_words)
    /\ \A k \in 1..Len(words) : Len(words[k]) < MaxWordLen
    /\ next_words' = add_letter(words, Sigma)
    /\ pc' = "while"
    /\ UNCHANGED <<input, delta, transitions, words, words_states, i, QD, deltaD>>

\* step2(transitions), up to the prints
Step2 ==
    /\ pc = "step2"
    /\ \A t \in transitions : ~weightRaises(t)
    /\ QD' = step2QD(transitions)
    /\ deltaD' = step2deltaD(transitions)
    /\ pc' = "done"
    /\ UNCHANGED <<input, delta, transitions, next_words, words, words_states, i>>

\* delta[(int(p), a, int(q))] looks up a key that delta does not hold
Step2KeyError ==
    /\ pc = "step2"
    /\ \E t \in transitions : weightRaises(t)
    /\ pc' = "KeyError"
    /\ UNCHANGED <<input, delta, transitions, next_words, words, words_states, i, QD, deltaD>>

Next ==
    \/ Complete
    \/ Step1Start
    \/ WhileEnter
    \/ WhileExit
    \/ ForBody
    \/ ForBodyKeyError
    \/ ForEnd
    \/ Step2
    \/ Step2KeyError

Spec == Init /\ [][Next]_vars

LiveSpec == InitLive /\ [][Next]_vars /\ WF_vars(Next)

\* the cap of ForEnd on the length of the words never stops step1
CapNotReached ==
    (pc = "for" /\ i > Len(next_words)) =>
        \A k \in 1..Len(words) : Len(words[k]) < MaxWordLen

----------------------------------------------------------------------------
(* Properties *)

Returned == pc \in {"step2", "done"}

RECURSIVE WordsOfLen(_)
WordsOfLen(n) ==
    IF n = 0 THEN {<<>>}
    ELSE {Append(w, a) : w \in WordsOfLen(n - 1), a \in SeqSet(Sigma)}

WordsUpTo(n) == UNION {WordsOfLen(k) : k \in 0..n}

Orderings(Sig) ==
    {s \in [1..Len(Sig) -> SeqSet(Sig)] :
        \A j, k \in 1..Len(Sig) : j # k => s[j] # s[k]}

IsExample5 ==
    /\ Sigma = Example5Sigma
    /\ Q = Example5Q
    /\ initial = 0
    /\ F = Example5F
    /\ \A k \in DOMAIN delta :
          delta[k] = (IF k \in DOMAIN Example5Delta THEN Example5Delta[k] ELSE Bot)

\* C1: for a well-formed input, the transitions returned by step1 hold at
\* most one target state for each source state and symbol.
C1_Deterministic ==
    (WellFormed /\ Returned) =>
        \A t1, t2 \in transitions :
            (t1[1] = t2[1] /\ t1[2] = t2[2]) => t1[3] = t2[3]

\* C2: for a well-formed input, the encoding of every non-empty subset
\* reach(initial, w), w a non-empty word, is a source or a target of a
\* transition returned by step1.
C2_EverySubsetDiscovered ==
    (WellFormed /\ pc = "step2") =>
        \A w \in WordsUpTo(MaxProbe) \ {<<>>} :
            reach(initial, w) # {} =>
                to_state[reach(initial, w)] \in step2QD(transitions)

\* C3: on Example 5, step1 and step2 record ({0}, a, {1,2}) with weight
\* (0.5, 0.6) and ({0}, b, {0}); {1,2} is a state and is not final, {0} is
\* final.
C3_WorkedExample ==
    (IsExample5 /\ pc = "done") =>
        /\ <<<<"0">>, "a", <<"1", "2">>>> \in transitions
        /\ deltaD[<<<<"0">>, "a", <<"1", "2">>>>] = <<5, 6>>
        /\ <<<<"0">>, "b", <<"0">>>> \in transitions
        /\ <<"1", "2">> \in QD
        /\ <<"1", "2">> \notin is_final(QD)
        /\ <<"0">> \in is_final(QD)

C3_Witness ==
    IsExample5 /\ pc = "done" /\ Cardinality(transitions) = 5

\* C4: for a well-formed input, step1, once called, reaches an empty
\* frontier and returns.
C4_Step1Terminates ==
    (WellFormed /\ pc = "step1") ~> (pc = "step2" /\ next_words = <<>>)

C4_Witness ==
    /\ WellFormed /\ pc = "step2" /\ next_words = <<>>
    /\ \E w1, w2 \in DOMAIN words_states :
          /\ w1 # w2
          /\ Len(w2) >= 2
          /\ words_states[w1] = words_states[w2]
          /\ words_states[w1] # <<>>

\* C5: for a well-formed input, step1 returns the same transitions for
\* every ordering of the list Sigma.
C5_OrderIndependent ==
    (WellFormed /\ pc = "step2") =>
        \A Sig \in Orderings(Sigma) : step1(Sig) = transitions

\* C6: when reach(initial, a) is empty for every symbol a, step1 returns no
\* transition and the state set built by step2 is exactly the initial
\* deterministic state, with no outgoing transition.
C6_OnlyInitialState ==
    (WellFormed /\ pc = "done"
        /\ \A a \in SeqSet(Sigma) : reach(initial, <<a>>) = {}) =>
        /\ transitions = {}
        /\ QD = {to_state[{initial}]}
        /\ DOMAIN deltaD = {}

\* C7: an input whose initial state is not in Q raises no failure in the
\* middle of step1 or step2.
C7_NoFailureMidAlgorithm ==
    (initial \notin Q) => pc # "KeyError"

\* C8: for a well-formed input, two words with the same reach from the
\* initial state have the same reach after one more symbol.
C8_ReachDependsOnSubset ==
    (WellFormed /\ pc = "step1") =>
        \A w1, w2 \in WordsUpTo(MaxProbe - 1) : \A a \in SeqSet(Sigma) :
            reach(initial, w1) = reach(initial, w2) =>
                reach(initial, Append(w1, a)) = reach(initial, Append(w2, a))

\* C9: no transition returned by step1 gets the weight (0,1) in step2.
C9_NoBottomWeight ==
    (WellFormed /\ pc = "done") => \A t \in transitions : deltaD[t] # Bot

\* C10: to_state is injective on the subsets of Q.
C10_EncodingInjective ==
    \A A, B \in SUBSET Q : (to_state[A] = to_state[B]) <=> (A = B)

====
